---- MODULE Spec2Model ----
(***************************************************************************)
(* Constraint propagators of csc384/A2/propagators.py (prop_BT, prop_FC,   *)
(* prop_GAC) run step by step over small constraint networks, driven by a  *)
(* backtracking-search driver that assigns variables, calls a propagator   *)
(* and restores the pruning lists it was handed.                           *)
(*                                                                         *)
(* Variable, Constraint and CSP come from cspbase, which the propagators   *)
(* import; they are modelled from the data model of the specification:     *)
(* a variable has a full domain, a current domain and an optional          *)
(* assigned value, tracked independently.                                  *)
(***************************************************************************)
EXTENDS Integers, Sequences, FiniteSets, TLC

\* Number of propagator calls the driver makes in one session.
MaxCalls == 3

\* None, for newVar and for the assigned value of a variable.
None == 0

Props == {"BT", "FC", "GAC"}

---------------------------------------------------------------------------
(* The networks the propagators are run on.  Variables are 1..n, values    *)
(* are positive integers, a constraint is a scope (a sequence of distinct  *)
(* variables) and its set of satisfying tuples.                            *)

Neq(a, b, Da, Db) == [scope |-> <<a, b>>,
                      sat |-> {t \in Da \X Db : t[1] /= t[2]}]

Less(a, b, Da, Db) == [scope |-> <<a, b>>,
                       sat |-> {t \in Da \X Db : t[1] < t[2]}]

AllDiff3(D1, D2, D3) ==
  [scope |-> <<1, 2, 3>>,
   sat |-> {t \in D1 \X D2 \X D3 :
              t[1] /= t[2] /\ t[1] /= t[3] /\ t[2] /= t[3]}]

Catalog ==
  << \* two variables over {1,2}, not-equal
     [dom |-> <<{1, 2}, {1, 2}>>, cons |-> <<Neq(1, 2, {1, 2}, {1, 2})>>],
     \* one variable over {1,2}, "value must be 1"
     [dom |-> <<{1, 2}>>, cons |-> <<[scope |-> <<1>>, sat |-> {<<1>>}]>>],
     \* two preset cells holding the same value, not-equal
     [dom |-> <<{1}, {1}>>, cons |-> <<Neq(1, 2, {1}, {1})>>],
     \* x1 against x2 over {1,2} and against a preset x3 = 1
     [dom |-> <<{1, 2}, {1, 2}, {1}>>,
      cons |-> <<Neq(1, 2, {1, 2}, {1, 2}), Neq(1, 3, {1, 2}, {1})>>],
     \* chain x1 < x2 < x3
     [dom |-> <<{1, 2}, {2, 3}, {3}>>,
      cons |-> <<Less(1, 2, {1, 2}, {2, 3}), Less(2, 3, {2, 3}, {3})>>],
     \* one all-different constraint over three variables
     [dom |-> <<{1, 2}, {1, 2}, {2, 3}>>,
      cons |-> <<AllDiff3({1, 2}, {1, 2}, {2, 3})>>],
     \* one all-different constraint over three variables of domain 1..3
     [dom |-> <<1..3, 1..3, 1..3>>, cons |-> <<AllDiff3(1..3, 1..3, 1..3)>>],
     \* three variables of domain 1..3, pairwise not-equal
     [dom |-> <<1..3, 1..3, 1..3>>,
      cons |-> <<Neq(1, 2, 1..3, 1..3), Neq(2, 3, 1..3, 1..3),
                 Neq(1, 3, 1..3, 1..3)>>]
  >>

VARIABLES
  net,        \* index of the network in Catalog
  curdom,     \* Variable.domain_current, per variable
  assigned,   \* Variable.assigned_value, per variable (None = unassigned)
  pc,         \* position of the running call, "idle" between calls
  prop,       \* the propagator being run
  newVar,     \* its newVar argument (None or a variable)
  pruned,     \* its local list pruned
  cons,       \* its local list / deque cons (constraint indices)
  c,          \* the constraint being processed
  vi,         \* position in c's scope of the variable being revised
  var,        \* the variable being revised (unassigned_var in prop_FC)
  vals,       \* the values of the snapshot var.cur_domain() still to visit
  ok,         \* the returned flag, when pc = "ret"
  trail,      \* the driver's stack of pruning lists it accepted
  pre,        \* the current domains at the start of the call
  base,       \* the last fully assigned state a propagator was called in
  enq,        \* constraints that were in the GAC queue during the call
  verdicts,   \* verdict of each propagator called in the base state
  calls,      \* number of propagator calls made so far
  nenq,       \* constraints appended to the GAC queue by the main loop
  board,      \* initial_futoshiki_board handed to a model builder
  csp,        \* the csp a model builder returned
  preasg      \* the assigned values at the start of the call

vars == <<net, curdom, assigned, pc, prop, newVar, pruned, cons, c, vi, var,
          vals, ok, trail, pre, base, enq, verdicts, calls, nenq, board, csp, preasg>>

Net == Catalog[net]
Vars == DOMAIN Net.dom
NCons == Len(Net.cons)
domain_full(v) == Net.dom[v]

---------------------------------------------------------------------------
(* General helpers *)

Range(s) == {s[i] : i \in DOMAIN s}

RECURSIVE SortedSeq(_)
SortedSeq(S) ==
  IF S = {} THEN <<>>
  ELSE LET m == CHOOSE x \in S : \A y \in S : x <= y
       IN <<m>> \o SortedSeq(S \ {m})

RECURSIVE Flatten(_)
Flatten(ss) == IF ss = <<>> THEN <<>> ELSE Head(ss) \o Flatten(Tail(ss))

NoDup(s) == \A i, j \in DOMAIN s : i /= j => s[i] /= s[j]

---------------------------------------------------------------------------
(* cspbase: Variable, Constraint, CSP *)

\* Variable.cur_domain(): snapshot of the current values, in domain order
cur_domain(dom, v) == SortedSeq(dom[v])

in_cur_domain(dom, v, val) == val \in dom[v]

cur_domain_size(dom, v) == Cardinality(dom[v])

\* Variable.prune_value(val)
prune_value(dom, v, val) == [dom EXCEPT ![v] = @ \ {val}]

\* Variable.restore_curdom / unprune_value(val), used by the driver only
unprune_value(dom, v, val) == [dom EXCEPT ![v] = @ \cup {val}]

is_assigned(asg, v) == asg[v] /= None

get_scope(ci) == Net.cons[ci].scope

\* Constraint.get_n_unasgn()
get_n_unasgn(asg, ci) ==
  Cardinality({i \in DOMAIN get_scope(ci) : ~is_assigned(asg, get_scope(ci)[i])})

\* Constraint.check(vals)
check(ci, t) == t \in Net.cons[ci].sat

\* Constraint.has_support(var, val)
has_support(dom, ci, v, val) ==
  \E t \in Net.cons[ci].sat :
    \A i \in DOMAIN get_scope(ci) :
      IF get_scope(ci)[i] = v THEN t[i] = val
      ELSE t[i] \in dom[get_scope(ci)[i]]

\* CSP.get_all_cons()
get_all_cons == [i \in 1..NCons |-> i]

\* CSP.get_cons_with_var(var): the constraints whose scope contains var,
\* in the order of the network
get_cons_with_var(v) ==
  SelectSeq(get_all_cons, LAMBDA ci : v \in Range(get_scope(ci)))

---------------------------------------------------------------------------
\* the networks of the general runs, and those of the worked scenarios
GeneralNets == {i \in DOMAIN Catalog : i <= Len(Catalog) - 2}

ScenarioNets == {i \in DOMAIN Catalog : i <= 2 \/ i > Len(Catalog) - 2}

Start(nets) ==
  /\ net \in nets
  /\ curdom = Catalog[net].dom
  /\ assigned = [v \in DOMAIN Catalog[net].dom |-> None]
  /\ pc = "idle"
  /\ prop = "BT"
  /\ newVar = None
  /\ pruned = <<>>
  /\ cons = <<>>
  /\ c = 0
  /\ vi = 0
  /\ var = 0
  /\ vals = <<>>
  /\ ok = TRUE
  /\ trail = <<>>
  /\ pre = Catalog[net].dom
  /\ base = [dom |-> Catalog[net].dom,
             asg |-> [v \in DOMAIN Catalog[net].dom |-> None],
             nv |-> None]
  /\ enq = {}
  /\ verdicts = [p \in Props |-> "none"]
  /\ calls = 0
  /\ nenq = 0
  /\ preasg = [v \in DOMAIN Catalog[net].dom |-> None]

\* no futoshiki model is being built
NoCsp == [model |-> 0, doms |-> <<>>, cons |-> <<>>]

NoBoard == board = <<>> /\ csp = NoCsp

Init == Start(GeneralNets) /\ NoBoard

ScenInit == Start(ScenarioNets) /\ NoBoard

---------------------------------------------------------------------------
(* The search driver (bt_search): assigns a value of the current domain,   *)
(* calls a propagator, keeps the pruning list it is handed and restores it *)
(* on backtrack.                                                           *)

NoBase == [dom |-> Net.dom, asg |-> [v \in Vars |-> None], nv |-> None]
NoVerdicts == [p \in Props |-> "none"]

DriverAssign(v, val) ==
  /\ pc = "idle"
  /\ ~is_assigned(assigned, v)
  /\ in_cur_domain(curdom, v, val)
  /\ assigned' = [assigned EXCEPT ![v] = val]
  /\ base' = NoBase
  /\ verdicts' = NoVerdicts
  /\ UNCHANGED <<preasg, board, csp, nenq,
                 net, curdom, pc, prop, newVar, pruned, cons, c, vi, var,
                 vals, ok, trail, pre, enq, calls>>

DriverUnassign(v) ==
  /\ pc = "idle"
  /\ is_assigned(assigned, v)
  /\ assigned' = [assigned EXCEPT ![v] = None]
  /\ base' = NoBase
  /\ verdicts' = NoVerdicts
  /\ UNCHANGED <<preasg, board, csp, nenq,
                 net, curdom, pc, prop, newVar, pruned, cons, c, vi, var,
                 vals, ok, trail, pre, enq, calls>>

\* the driver records the list it was handed; the call's locals are gone
DriverAccept ==
  /\ pc = "ret"
  /\ pc' = "idle"
  /\ trail' = Append(trail, pruned)
  /\ prop' = "BT"
  /\ newVar' = None
  /\ pruned' = <<>>
  /\ cons' = <<>>
  /\ c' = 0
  /\ vi' = 0
  /\ var' = 0
  /\ vals' = <<>>
  /\ ok' = TRUE
  /\ enq' = {}
  /\ pre' = Net.dom
  /\ nenq' = 0
  /\ preasg' = [v \in Vars |-> None]
  /\ UNCHANGED <<board, csp,
                 net, curdom, assigned, base, verdicts, calls>>

RECURSIVE RestoreAll(_, _)
RestoreAll(dom, ps) ==
  IF ps = <<>> THEN dom
  ELSE RestoreAll(unprune_value(dom, Head(ps)[1], Head(ps)[2]), Tail(ps))

\* the driver restores every pair of the most recent list
DriverRestore ==
  /\ pc = "idle"
  /\ trail /= <<>>
  /\ curdom' = RestoreAll(curdom, trail[Len(trail)])
  /\ trail' = SubSeq(trail, 1, Len(trail) - 1)
  /\ UNCHANGED <<preasg, board, csp, nenq,
                 net, assigned, pc, prop, newVar, pruned, cons, c, vi, var,
                 vals, ok, pre, base, enq, verdicts, calls>>

\* entry of a propagator call: propagator(csp, newVar)
Enter(p, nv) ==
  /\ pc = "idle"
  /\ calls < MaxCalls
  /\ nv = None \/ (nv \in Vars /\ is_assigned(assigned, nv))
  /\ calls' = calls + 1
  /\ prop' = p
  /\ newVar' = nv
  /\ pre' = curdom
  /\ preasg' = assigned
  /\ base' = IF \A v \in Vars : is_assigned(assigned, v)
             THEN [dom |-> curdom, asg |-> assigned, nv |-> nv]
             ELSE NoBase

\* the verdicts already known for the state the call starts in
Known == IF base' = base THEN verdicts ELSE NoVerdicts

FullyAssignedCall == base /= NoBase

\* "return flag, pruned"
Return(flag) ==
  /\ pc' = "ret"
  /\ ok' = flag
  /\ verdicts' = IF FullyAssignedCall
                 THEN [verdicts EXCEPT ![prop] = IF flag THEN "T" ELSE "F"]
                 ELSE verdicts

\* the values of the scope variables' assignments, in scope order
AssignedTuple(asg, ci) == [i \in DOMAIN get_scope(ci) |-> asg[get_scope(ci)[i]]]

---------------------------------------------------------------------------
(* prop_BT *)

\* lines 70-72
BTCall(nv) ==
  /\ Enter("BT", nv)
  /\ pruned' = <<>>
  /\ IF nv = None
     THEN /\ pc' = "ret"
          /\ ok' = TRUE
          /\ cons' = <<>>
          /\ verdicts' = IF base' /= NoBase
                         THEN [Known EXCEPT !["BT"] = "T"]
                         ELSE Known
     ELSE /\ pc' = "bt"
          /\ ok' = ok
          /\ cons' = get_cons_with_var(nv)
          /\ verdicts' = Known
  /\ UNCHANGED <<board, csp, nenq,
                 net, curdom, assigned, c, vi, var, vals, trail, enq>>

\* mutant: every constraint of newVar is checked, fully assigned or not
BTChecks_All(asg, ci) == TRUE

\* mutant: the test of prop_FC, one unassigned variable, is used
BTChecks_One(asg, ci) == get_n_unasgn(asg, ci) = 1

\* constraints of which prop_BT checks the assigned tuple (line 73)
BTChecks(asg, ci) == get_n_unasgn(asg, ci) = 0

\* one iteration of the loop of lines 72-79, or the return of line 80
BTStep ==
  /\ pc = "bt"
  /\ IF cons = <<>>
     THEN /\ Return(TRUE)
          /\ UNCHANGED <<cons, c>>
     ELSE /\ c' = Head(cons)
          /\ cons' = Tail(cons)
          /\ IF BTChecks(assigned, Head(cons))
                /\ ~check(Head(cons), AssignedTuple(assigned, Head(cons)))
             THEN Return(FALSE)
             ELSE UNCHANGED <<pc, ok, verdicts>>
  /\ UNCHANGED <<preasg, board, csp, nenq,
                 net, curdom, assigned, prop, newVar, pruned, vi, var, vals,
                 trail, pre, base, enq, calls>>

---------------------------------------------------------------------------
(* prop_FC *)

\* lines 112-117
FCCall(nv) ==
  /\ Enter("FC", nv)
  /\ verdicts' = Known
  /\ cons' = IF nv = None THEN get_all_cons ELSE get_cons_with_var(nv)
  /\ pruned' = <<>>
  /\ pc' = "fc"
  /\ UNCHANGED <<board, csp, nenq,
                 net, curdom, assigned, c, vi, var, vals, ok, trail, enq>>

\* mutant: constraints with several unassigned variables are checked too
FCChecks_Some(asg, ci) == get_n_unasgn(asg, ci) >= 1

\* constraints that prop_FC forward checks (line 119)
FCChecks(asg, ci) == get_n_unasgn(asg, ci) = 1

\* the variable left in unassigned_var by the loop of lines 121-126
FCUnassignedVar(asg, ci) ==
  LET idx == {i \in DOMAIN get_scope(ci) : ~is_assigned(asg, get_scope(ci)[i])}
  IN get_scope(ci)[CHOOSE i \in idx : \A j \in idx : j <= i]

\* head of the loop of line 118, lines 119-126, or the return of line 147
FCNext ==
  /\ pc = "fc"
  /\ IF cons = <<>>
     THEN /\ Return(TRUE)
          /\ UNCHANGED <<cons, c, var, vals>>
     ELSE /\ c' = Head(cons)
          /\ cons' = Tail(cons)
          /\ IF FCChecks(assigned, Head(cons))
             THEN /\ var' = FCUnassignedVar(assigned, Head(cons))
                  /\ vals' = cur_domain(curdom, var')
                  /\ pc' = IF vals' = <<>> THEN "fc" ELSE "fc_val"
             ELSE UNCHANGED <<pc, var, vals>>
          /\ UNCHANGED <<ok, verdicts>>
  /\ UNCHANGED <<preasg, board, csp, nenq,
                 net, curdom, assigned, prop, newVar, pruned, vi, trail,
                 pre, base, enq, calls>>

\* lines 128-133: the candidate value is assigned to unassigned_var
FCAssign ==
  /\ pc = "fc_val"
  /\ assigned' = [assigned EXCEPT ![var] = Head(vals)]
  /\ pc' = "fc_chk"
  /\ UNCHANGED <<preasg, board, csp, nenq,
                 net, curdom, prop, newVar, pruned, cons, c, vi, var, vals,
                 ok, trail, pre, base, enq, verdicts, calls>>

\* line 141: "unassigned_var.cur_domain_size == 0" compares the bound
\* method itself with 0 (it is not called), which is never true
FCDeadEnd(dom, v) == FALSE

\* mutant: line 145 is left out, the candidate value stays assigned
FCUnassign_Keep(asg, v) == asg

\* lines 142 and 145: unassigned_var.unassign()
FCUnassign(asg, v) == [asg EXCEPT ![v] = None]

\* lines 135-145 for the value assigned by FCAssign
FCCheck ==
  /\ pc = "fc_chk"
  /\ LET val == Head(vals)
         fails == ~check(c, AssignedTuple(assigned, c))
         prunes == fails /\ in_cur_domain(curdom, var, val)
         dom2 == IF prunes THEN prune_value(curdom, var, val) ELSE curdom
     IN /\ curdom' = dom2
        /\ pruned' = IF prunes THEN Append(pruned, <<var, val>>) ELSE pruned
        /\ assigned' = FCUnassign(assigned, var)
        /\ IF fails /\ FCDeadEnd(dom2, var)
           THEN /\ Return(FALSE)
                /\ UNCHANGED vals
           ELSE /\ vals' = Tail(vals)
                /\ pc' = IF Tail(vals) = <<>> THEN "fc" ELSE "fc_val"
                /\ UNCHANGED <<ok, verdicts>>
  /\ UNCHANGED <<preasg, board, csp, nenq,
                 net, prop, newVar, cons, c, vi, var, trail, pre, base, enq,
                 calls>>

---------------------------------------------------------------------------
(* prop_GAC *)

\* mutant: every value of the full domain but the assigned one is pruned
GACNewVarPrunes_Full(dom, asg, nv) ==
  SelectSeq(SortedSeq(domain_full(nv)), LAMBDA val : val /= asg[nv])

\* the values of newVar pruned by lines 186-190
GACNewVarPrunes(dom, asg, nv) ==
  SelectSeq(cur_domain(dom, nv), LAMBDA val : val /= asg[nv])

\* mutant: the queue always starts with every constraint
GACSeed_All(nv) == get_all_cons

\* the initial queue, lines 180-183
GACSeed(nv) == IF nv = None THEN get_all_cons ELSE get_cons_with_var(nv)

RECURSIVE PruneAll(_, _, _)
PruneAll(dom, v, vs) ==
  IF vs = <<>> THEN dom
  ELSE PruneAll(prune_value(dom, v, Head(vs)), v, Tail(vs))

\* mutant: lines 186-190 are left out, newVar keeps its other values
GACForce_Skip(dom, asg, nv) == dom

\* mutant: newVar's current domain is set to its assigned value
GACForce_Set(dom, asg, nv) == [dom EXCEPT ![nv] = {asg[nv]}]

\* lines 186-190: newVar's current domain after its other values are pruned
GACForce(dom, asg, nv) == PruneAll(dom, nv, GACNewVarPrunes(dom, asg, nv))

\* mutant: the pruned pair is not recorded
GACRecord_Forget(pr, v, val) == pr

\* lines 190 and 204: pruned.append((var, val))
GACRecord(pr, v, val) == Append(pr, <<v, val>>)

RECURSIVE GACRecordAll(_, _, _)
GACRecordAll(pr, v, vs) ==
  IF vs = <<>> THEN pr
  ELSE GACRecordAll(GACRecord(pr, v, Head(vs)), v, Tail(vs))

\* lines 179-190
GACCall(nv) ==
  /\ Enter("GAC", nv)
  /\ verdicts' = Known
  /\ cons' = GACSeed(nv)
  /\ enq' = Range(cons')
  /\ IF nv = None
     THEN /\ pruned' = <<>>
          /\ curdom' = curdom
     ELSE /\ pruned' = GACRecordAll(<<>>, nv,
                                    GACNewVarPrunes(curdom, assigned, nv))
          /\ curdom' = GACForce(curdom, assigned, nv)
  /\ pc' = "gac"
  /\ UNCHANGED <<board, csp, nenq,
                 net, assigned, c, vi, var, vals, ok, trail>>

\* lines 193-196: pop the next constraint, or return (line 216)
GACPop ==
  /\ pc = "gac"
  /\ IF cons = <<>>
     THEN /\ Return(TRUE)
          /\ UNCHANGED <<cons, c, vi, var, vals>>
     ELSE /\ c' = Head(cons)
          /\ cons' = Tail(cons)
          /\ vi' = 1
          /\ var' = get_scope(Head(cons))[1]
          /\ vals' = cur_domain(curdom, var')
          /\ pc' = "gac_val"
          /\ UNCHANGED <<ok, verdicts>>
  /\ UNCHANGED <<preasg, board, csp, nenq,
                 net, curdom, assigned, prop, newVar, pruned, trail, pre, base,
                 enq, calls>>

\* lines 196-197: the values of var are exhausted, go to the next variable
\* of the scope, or back to the head of the while loop
GACNextVar ==
  /\ pc = "gac_val"
  /\ vals = <<>>
  /\ IF vi < Len(get_scope(c))
     THEN /\ vi' = vi + 1
          /\ var' = get_scope(c)[vi + 1]
          /\ vals' = cur_domain(curdom, var')
          /\ pc' = pc
     ELSE /\ pc' = "gac"
          /\ UNCHANGED <<vi, var, vals>>
  /\ UNCHANGED <<preasg, board, csp, nenq,
                 net, curdom, assigned, prop, newVar, pruned, cons, c, ok,
                 trail, pre, base, enq, verdicts, calls>>

\* mutant: no constraint is put back in the queue
Enqueue_None(q, cs) == q

\* mutant: the loop of line 212 stops after the first constraint
Enqueue_First(q, cs) ==
  IF cs = <<>> \/ Head(cs) \in Range(q) THEN q ELSE Append(q, Head(cs))

\* mutant: the test "c2 not in cons" of line 213 is left out
Enqueue_Dup(q, cs) == q \o cs

\* lines 212-214: the constraints cs (those containing var) that are not in
\* the queue are appended to it
RECURSIVE Enqueue(_, _)
Enqueue(q, cs) ==
  IF cs = <<>> THEN q
  ELSE Enqueue(IF Head(cs) \in Range(q) THEN q ELSE Append(q, Head(cs)),
               Tail(cs))

\* mutant: a dead end is reported when one value is left
GACDeadEnd_AtOne(dom, v) == cur_domain_size(dom, v) <= 1

\* mutant: the size method is compared with 0 without being called
GACDeadEnd_Never(dom, v) == FALSE

\* line 206
GACDeadEnd(dom, v) == cur_domain_size(dom, v) = 0

\* mutant: the "not" of line 199 is left out
GACUnsupported_Flip(dom, ci, v, val) == has_support(dom, ci, v, val)

\* line 199: "if not c.has_support(var, val)"
GACUnsupported(dom, ci, v, val) == ~has_support(dom, ci, v, val)

\* mutant: the loop of lines 212-214 runs after every support check
GACRequeue_Always(q, v, fails) == Enqueue(q, get_cons_with_var(v))

\* lines 199-214: the queue after the check of one value of v; the loop of
\* lines 212-214 is inside "if not c.has_support(var, val)"
GACRequeue(q, v, fails) ==
  IF fails THEN Enqueue(q, get_cons_with_var(v)) ELSE q

\* lines 198-214 for one value of var
GACCheck ==
  /\ pc = "gac_val"
  /\ vals /= <<>>
  /\ LET val == Head(vals)
         fails == GACUnsupported(curdom, c, var, val)
         prunes == fails /\ in_cur_domain(curdom, var, val)
         dom2 == IF prunes THEN prune_value(curdom, var, val) ELSE curdom
     IN /\ curdom' = dom2
        /\ pruned' = IF prunes THEN GACRecord(pruned, var, val) ELSE pruned
        /\ IF fails /\ GACDeadEnd(dom2, var)
           THEN /\ Return(FALSE)
                /\ UNCHANGED <<cons, enq, vals, nenq>>
           ELSE /\ cons' = GACRequeue(cons, var, fails)
                /\ enq' = enq \cup Range(cons')
                /\ nenq' = nenq + (Len(cons') - Len(cons))
                /\ vals' = Tail(vals)
                /\ UNCHANGED <<pc, ok, verdicts>>
  /\ UNCHANGED <<preasg, board, csp,
                 net, assigned, prop, newVar, c, vi, var, trail, pre, base,
                 calls>>

---------------------------------------------------------------------------
Next ==
  \/ \E v \in Vars : \E val \in domain_full(v) : DriverAssign(v, val)
  \/ \E v \in Vars : DriverUnassign(v)
  \/ DriverAccept
  \/ DriverRestore
  \/ \E nv \in Vars \cup {None} : BTCall(nv)
  \/ BTStep
  \/ \E nv \in Vars \cup {None} : FCCall(nv)
  \/ FCNext
  \/ FCAssign
  \/ FCCheck
  \/ \E nv \in Vars \cup {None} : GACCall(nv)
  \/ GACPop
  \/ GACNextVar
  \/ GACCheck

Spec == Init /\ [][Next]_vars

\* the worked scenarios: the driver assigns, calls prop_GAC, and backtracks
ScenNext ==
  \/ \E v \in Vars : \E val \in domain_full(v) : DriverAssign(v, val)
  \/ DriverAccept
  \/ DriverRestore
  \/ \E nv \in Vars \cup {None} : GACCall(nv)
  \/ GACPop
  \/ GACNextVar
  \/ GACCheck

ScenSpec == ScenInit /\ [][ScenNext]_vars

\* a propagator call is synchronous and runs to completion: a step of the
\* running prop_GAC call that can be taken is taken
LiveSpec ==
  Spec /\ WF_vars(GACPop) /\ WF_vars(GACNextVar) /\ WF_vars(GACCheck)

---------------------------------------------------------------------------
(* futoshiki_csp.py: the two model builders.  A board is a list of n rows  *)
(* of 2n-1 entries: cells (0 = empty, or the preset value) alternate with  *)
(* the symbols ".", "<", ">".  Positions are counted from 1 here.            *)

\* num_rows = len(initial_futoshiki_board); n = len(var_array)
num_rows(b) == Len(b)

\* lines 96-103: an empty cell gets dom = [1..n], a preset cell [preset]
cell_dom(b, i, j) ==
  IF b[i][2 * j - 1] = 0 THEN 1..num_rows(b) ELSE {b[i][2 * j - 1]}

\* var_array[i][j], a variable being its position in the list vars
var_array(b, i, j) == (i - 1) * num_rows(b) + j

\* inequality_array[i][j]: the symbol after cell j of row i, lines 107-108
inequality_array(b, i, j) == b[i][2 * j]

\* the domains of vars, in the order the variables are created
var_doms(b) ==
  [k \in 1..(num_rows(b) * num_rows(b)) |->
     cell_dom(b, ((k - 1) \div num_rows(b)) + 1,
                 ((k - 1) % num_rows(b)) + 1)]

inequality_checker(inequality, val1, val2) ==
  IF inequality = "<" THEN val1 < val2
  ELSE IF inequality = ">" THEN val1 > val2
  ELSE TRUE

\* mutant: the symbol is applied to every pair, adjacent or not
checker_Everywhere(inequality, var1_tup, var2_tup, val1, val2) ==
  val1 /= val2 /\ inequality_checker(inequality, val1, val2)

\* var1_tup, var2_tup are the (row, column) places of the two cells
checker(inequality, var1_tup, var2_tup, val1, val2) ==
  IF var1_tup[2] + 1 = var2_tup[2]
  THEN val1 /= val2 /\ inequality_checker(inequality, val1, val2)
  ELSE val1 /= val2

all_diff_checker(vs, tup) ==
  \A i \in 1..Len(vs) : \A j \in (i + 1)..Len(vs) : tup[i] /= tup[j]

\* itertools.product of a list of domains
product(ds) ==
  {t \in [1..Len(ds) -> UNION {ds[k] : k \in 1..Len(ds)}] :
     \A k \in 1..Len(ds) : t[k] \in ds[k]}

\* Constraint(name, scope) followed by add_satisfying_tuples
Constraint(kind, of, scope, sat) ==
  [name |-> [kind |-> kind, of |-> of], scope |-> scope, sat |-> sat]

\* the (i, j, x) of the loops of lines 120-122, in order
Model1Loop(n) ==
  Flatten([i \in 1..n |->
    Flatten([j \in 1..n |-> [k \in 1..(n - j) |-> <<i, j, j + k>>]])])

\* lines 123-132: the constraint of cells (i, j) and (i, x) of row i
row_con(b, i, j, x) ==
  Constraint("C", <<i, j, i, x>>,
             <<var_array(b, i, j), var_array(b, i, x)>>,
             {t \in product(<<cell_dom(b, i, j), cell_dom(b, i, x)>>) :
                checker(inequality_array(b, i, j), <<i, j>>, <<i, x>>,
                        t[1], t[2])})

\* lines 136-145: the constraint of cells (j, i) and (x, i) of column i
col_con(b, i, j, x) ==
  Constraint("C", <<j, i, x, i>>,
             <<var_array(b, j, i), var_array(b, x, i)>>,
             {t \in product(<<cell_dom(b, j, i), cell_dom(b, x, i)>>) :
                checker(".", <<j, i>>, <<x, i>>, t[1], t[2])})

futoshiki_csp_model_1(b) ==
  [model |-> 1,
   doms |-> var_doms(b),
   cons |-> Flatten([k \in 1..Len(Model1Loop(num_rows(b))) |->
              LET l == Model1Loop(num_rows(b))[k]
              IN << row_con(b, l[1], l[2], l[3]),
                    col_con(b, l[1], l[2], l[3]) >>])]

\* mutant: a constraint is made for every symbol, "." included
HasInequality_Always(sym) == TRUE

\* line 260: "if inequality_array[i][j] != '.'"
HasInequality(sym) == sym /= "."

\* lines 253-268: the binary inequality constraints of row i
ineq_cons(b, i) ==
  Flatten([j \in 1..num_rows(b) |->
    IF j < num_rows(b)
    THEN IF HasInequality(inequality_array(b, i, j))
         THEN << Constraint("C", <<i, j, i, j + 1>>,
                   <<var_array(b, i, j), var_array(b, i, j + 1)>>,
                   {t \in product(<<cell_dom(b, i, j), cell_dom(b, i, j + 1)>>) :
                      inequality_checker(inequality_array(b, i, j),
                                         t[1], t[2])}) >>
         ELSE <<>>
    ELSE <<>>])

\* lines 272-280: the all-diff constraint of row i
row_all_diff(b, i) ==
  LET row_vars == [j \in 1..num_rows(b) |-> var_array(b, i, j)]
      row_var_doms == [j \in 1..num_rows(b) |-> cell_dom(b, i, j)]
  IN Constraint("Row", <<i>>, row_vars,
                {t \in product(row_var_doms) : all_diff_checker(row_vars, t)})

\* lines 282-290: the all-diff constraint of column i
col_all_diff(b, i) ==
  LET col_vars == [j \in 1..num_rows(b) |-> var_array(b, j, i)]
      col_var_doms == [j \in 1..num_rows(b) |-> cell_dom(b, j, i)]
  IN Constraint("Col", <<i>>, col_vars,
                {t \in product(col_var_doms) : all_diff_checker(col_vars, t)})

futoshiki_csp_model_2(b) ==
  [model |-> 2,
   doms |-> var_doms(b),
   cons |-> Flatten([i \in 1..num_rows(b) |->
              ineq_cons(b, i) \o <<row_all_diff(b, i), col_all_diff(b, i)>>])]

\* the boards the builders are run on: every board of side 1 and 2, and
\* the boards of side 3 with at most one preset cell
BoardSizes == 1..3

\* the cells of a board of side n with value v at (i, j) and 0 elsewhere
OnePreset(n, i, j, v) ==
  [r \in 1..n |-> [q \in 1..n |-> IF r = i /\ q = j THEN v ELSE 0]]

CellsOf(n) ==
  IF n <= 2 THEN [1..n -> [1..n -> 0..n]]
  ELSE {OnePreset(n, i, j, v) : i \in 1..n, j \in 1..n, v \in 0..n}

SymbolsOf(n) == [1..n -> [1..(n - 1) -> {".", "<", ">"}]]

Board(cells, syms) ==
  [i \in DOMAIN cells |->
     [p \in 1..(2 * Len(cells) - 1) |->
        IF p % 2 = 1 THEN cells[i][(p + 1) \div 2] ELSE syms[i][p \div 2]]]

Boards ==
  UNION {{Board(cells, syms) : cells \in CellsOf(n), syms \in SymbolsOf(n)} :
           n \in BoardSizes}

propVars == <<net, curdom, assigned, pc, prop, newVar, pruned, cons, c, vi,
              var, vals, ok, trail, pre, base, enq, verdicts, calls, nenq,
              preasg>>

FutoInit == Start({1}) /\ board \in Boards /\ csp = NoCsp

Model1 ==
  /\ csp = NoCsp
  /\ csp' = futoshiki_csp_model_1(board)
  /\ UNCHANGED <<board, propVars>>

Model2 ==
  /\ csp = NoCsp
  /\ csp' = futoshiki_csp_model_2(board)
  /\ UNCHANGED <<board, propVars>>

FutoNext == Model1 \/ Model2

FutoSpec == FutoInit /\ [][FutoNext]_vars

---------------------------------------------------------------------------
(* Properties *)

InCall == pc \notin {"idle", "ret"}

\* the pairs removed from the current domains since the call started
Removed == {p \in UNION {{<<v, val>> : val \in pre[v]} : v \in Vars} :
              p[2] \notin curdom[p[1]]}

\* the pairs that entered the current domains since the call started
Added == {p \in UNION {{<<v, val>> : val \in curdom[v]} : v \in Vars} :
            p[2] \notin pre[p[1]]}

\* C1: when prop_BT, prop_FC or prop_GAC returns, True or False, the pairs
\* of the returned list are exactly the values the call removed from the
\* current domains, and restoring them gives the pre-call domains back.
C1_ListIsWhatWasRemoved ==
  pc = "ret" =>
    /\ Range(pruned) = Removed
    /\ Added = {}
    /\ RestoreAll(curdom, pruned) = pre

C1_Witness ==
  /\ pc = "ret"
  /\ ~ok
  /\ Len(pruned) >= 2
  /\ \E i, j \in DOMAIN pruned : pruned[i][1] /= pruned[j][1]

\* the unrestored pruning history: the lists the driver holds, then the
\* list of the running call
History == Flatten(trail) \o pruned

\* C2: the list of a call never holds a pair twice, nor does the history
\* of the lists not yet restored, and a step of a propagator only prunes
\* (and records) values that are in the variable's current domain.
C2_NoDoublePrune ==
  /\ [](NoDup(pruned) /\ NoDup(History))
  /\ [][\A i \in DOMAIN pruned' :
          i > Len(pruned) /\ pc' /= "idle" =>
            /\ in_cur_domain(curdom, pruned'[i][1], pruned'[i][2])
            /\ ~in_cur_domain(curdom', pruned'[i][1], pruned'[i][2])]_vars

C2_Witness ==
  /\ pc = "ret"
  /\ trail /= <<>>
  /\ Flatten(trail) /= <<>>
  /\ pruned /= <<>>
  /\ \E i \in DOMAIN trail : \E j \in DOMAIN trail[i] :
       trail[i][j][1] = pruned[1][1]

ArcConsistent(dom, ci) ==
  \A i \in DOMAIN get_scope(ci) :
    \A val \in dom[get_scope(ci)[i]] :
      has_support(dom, ci, get_scope(ci)[i], val)

\* C3: when prop_GAC returns True, every constraint that was in its queue
\* during the call is arc-consistent with respect to the current domains.
C3_GACSound ==
  (pc = "ret" /\ prop = "GAC" /\ ok) => \A ci \in enq : ArcConsistent(curdom, ci)

C3_Witness ==
  /\ pc = "ret"
  /\ prop = "GAC"
  /\ ok
  /\ Cardinality(enq) >= 2
  /\ \E i, j \in DOMAIN pruned : pruned[i][1] /= pruned[j][1]

\* a step of the main loop of prop_GAC
GACLoopStep == prop = "GAC" /\ pc \in {"gac", "gac_val"}

\* the step prunes a value and leaves that variable's domain empty
EmptyingPrune ==
  /\ Len(pruned') = Len(pruned) + 1
  /\ curdom[pruned'[Len(pruned')][1]] /= {}
  /\ curdom'[pruned'[Len(pruned')][1]] = {}

\* C4: in the main loop prop_GAC returns False exactly at the step whose
\* prune leaves a current domain empty; that step enqueues nothing, and the
\* returned list holds every pair removed since the call started, the
\* pairs pruned from newVar during initialization included.
C4_GACDeadEnd ==
  [][GACLoopStep =>
       /\ (pc' = "ret" /\ ~ok') <=> EmptyingPrune
       /\ (pc' = "ret" /\ ~ok') =>
            /\ cons' = cons
            /\ Range(pruned') = {p \in UNION {{<<v, val>> : val \in pre[v]} : v \in Vars} :
                                   p[2] \notin curdom'[p[1]]}
            /\ newVar /= None =>
                 \A val \in pre[newVar] \ {assigned[newVar]} :
                   <<newVar, val>> \in Range(pruned')]_vars

C4_Witness ==
  /\ pc = "ret"
  /\ prop = "GAC"
  /\ ~ok
  /\ newVar /= None
  /\ pre[newVar] \ {assigned[newVar]} /= {}
  /\ Len(pruned) >= 3

\* C5: the initialization of prop_GAC, with newVar, prunes exactly the
\* values of newVar's current domain other than its assigned value, records
\* each of them, and seeds the queue with exactly the constraints whose
\* scope contains newVar; without newVar it prunes nothing and seeds the
\* queue with every constraint.  No constraint has been revised by then.
C5_GACInit ==
  [][(pc = "idle" /\ pc' = "gac") =>
       /\ NoDup(cons')
       /\ c' = 0
       /\ IF newVar' = None
          THEN /\ Range(cons') = 1..NCons
               /\ pruned' = <<>>
               /\ curdom' = curdom
          ELSE /\ Range(cons') = {ci \in 1..NCons :
                                    newVar' \in Range(get_scope(ci))}
               /\ curdom' = [curdom EXCEPT ![newVar'] = @ \cap {assigned[newVar']}]
               /\ Range(pruned') = {<<newVar', val>> :
                                      val \in curdom[newVar'] \ {assigned[newVar']}}
               /\ NoDup(pruned')]_vars

C5_Witness ==
  /\ pc = "gac"
  /\ c = 0
  /\ newVar /= None
  /\ pruned /= <<>>
  /\ Len(cons) < NCons

\* C6: when a prune of prop_FC leaves the current domain of the unassigned
\* variable empty, prop_FC returns False at once, with every pair pruned so
\* far in the call.
C6_FCDeadEnd ==
  [][(pc = "fc_chk" /\ curdom[var] /= {} /\ curdom'[var] = {}) =>
       /\ pc' = "ret"
       /\ ~ok'
       /\ Range(pruned') = {p \in UNION {{<<v, val>> : val \in pre[v]} : v \in Vars} :
                              p[2] \notin curdom'[p[1]]}]_vars

\* the constraints a call of prop_FC goes through
Considered(nv) ==
  IF nv = None THEN 1..NCons
  ELSE {ci \in 1..NCons : nv \in Range(get_scope(ci))}

\* the single unassigned variable of constraint ci
TheUnassigned(ci) ==
  CHOOSE v \in Range(get_scope(ci)) : ~is_assigned(assigned, v)

\* the tuple of ci with val for v and the assigned values elsewhere
TupleWith(ci, v, val) ==
  [i \in DOMAIN get_scope(ci) |->
     IF get_scope(ci)[i] = v THEN val ELSE assigned[get_scope(ci)[i]]]

\* C7: when prop_FC returns True, every constraint it considered that has
\* exactly one unassigned variable U is satisfied by every value left in
\* U's current domain together with the assigned values of the others, and
\* every pruned pair is a value of such a U failing such a constraint:
\* constraints with no or several unassigned variables prune nothing.
C7_FCForwardChecked ==
  (pc = "ret" /\ prop = "FC" /\ ok) =>
    /\ \A ci \in Considered(newVar) :
         get_n_unasgn(assigned, ci) = 1 =>
           \A val \in curdom[TheUnassigned(ci)] :
             check(ci, TupleWith(ci, TheUnassigned(ci), val))
    /\ \A i \in DOMAIN pruned :
         \E ci \in Considered(newVar) :
           /\ get_n_unasgn(assigned, ci) = 1
           /\ TheUnassigned(ci) = pruned[i][1]
           /\ ~check(ci, TupleWith(ci, pruned[i][1], pruned[i][2]))

C7_Witness ==
  /\ pc = "ret"
  /\ prop = "FC"
  /\ ok
  /\ pruned /= <<>>
  /\ \E ci \in Considered(newVar) : get_n_unasgn(assigned, ci) = 1
  /\ \E ci \in Considered(newVar) : get_n_unasgn(assigned, ci) /= 1

\* C8: prop_BT changes no current domain and no assignment and returns an
\* empty list; without newVar it returns True; with newVar it returns False
\* exactly when a constraint containing newVar has no unassigned variable
\* and its check fails on the assigned values taken in scope order.
C8_BTOnlyChecks ==
  /\ []((pc = "ret" /\ prop = "BT") =>
         /\ pruned = <<>>
         /\ curdom = pre
         /\ newVar = None => ok
         /\ newVar /= None =>
              (~ok <=> \E ci \in Considered(newVar) :
                         /\ get_n_unasgn(assigned, ci) = 0
                         /\ ~check(ci, AssignedTuple(assigned, ci))))
  /\ [][prop' = "BT" /\ pc' /= "idle" =>
          (curdom' = curdom /\ assigned' = assigned)]_vars

C8_Witness ==
  /\ pc = "ret"
  /\ prop = "BT"
  /\ ~ok
  /\ \E ci \in Considered(newVar) : get_n_unasgn(assigned, ci) = 0

\* C9: a step of a propagator call never adds a value to a current domain,
\* which stays within the full domain; a current domain grows only by a
\* restore of the driver between calls.
C9_DomainsOnlyShrink ==
  /\ [](\A v \in Vars : curdom[v] \subseteq domain_full(v))
  /\ [][/\ pc' /= "idle" => \A v \in Vars : curdom'[v] \subseteq curdom[v]
        /\ (\E v \in Vars : ~(curdom'[v] \subseteq curdom[v])) =>
             (pc = "idle" /\ pc' = "idle" /\ Len(trail') < Len(trail))]_vars

C9_Witness ==
  /\ InCall
  /\ pruned /= <<>>
  /\ trail /= <<>>
  /\ \E v \in Vars : curdom[v] /= pre[v] /\ pre[v] /= domain_full(v)

\* the two propagators were both called in the base state and disagree
Disagree(p, q) ==
  /\ verdicts[p] /= "none"
  /\ verdicts[q] /= "none"
  /\ verdicts[p] /= verdicts[q]

\* C10: called in the same fully assigned state with the same newVar,
\* prop_BT and prop_FC each return the verdict of prop_GAC.
C10_SameVerdictAsGAC ==
  FullyAssignedCall => (~Disagree("BT", "GAC") /\ ~Disagree("FC", "GAC"))

\* every current domain of the base state is exactly the assigned value
Singletons == \A v \in Vars : base.dom[v] = {base.asg[v]}

\* C10 (amended): in a fully assigned state prop_FC always returns True;
\* prop_BT returns the verdict of prop_GAC when newVar is given and every
\* current domain holds exactly the assigned value of its variable.
C10_Amended ==
  FullyAssignedCall =>
    /\ verdicts["FC"] /= "F"
    /\ (Singletons /\ base.nv /= None) => ~Disagree("BT", "GAC")

C10_Witness ==
  /\ FullyAssignedCall
  /\ Singletons
  /\ base.nv /= None
  /\ verdicts = [BT |-> "F", FC |-> "T", GAC |-> "F"]

RECURSIVE SumSizes(_, _)
SumSizes(dom, n) == IF n = 0 THEN 0 ELSE Cardinality(dom[n]) + SumSizes(dom, n - 1)

\* the total number of domain values of the network
TotalValues == SumSizes(Net.dom, Len(Net.dom))

\* C11: every prop_GAC call ends with a definite True or False; the main
\* loop appends a constraint to the queue only in a step that prunes a
\* value, strictly shrinking a domain, and the number of appends of a call
\* is at most (total number of domain values) times (number of constraints).
C11_GACTerminates ==
  /\ [](nenq <= TotalValues * NCons)
  /\ [][(GACLoopStep /\ nenq' > nenq) =>
          /\ Len(pruned') = Len(pruned) + 1
          /\ curdom'[var] /= curdom[var]
          /\ curdom'[var] \subseteq curdom[var]]_vars
  /\ ((prop = "GAC" /\ pc \in {"gac", "gac_val"}) ~> pc = "ret")

C11_Witness ==
  /\ pc = "ret"
  /\ prop = "GAC"
  /\ nenq >= 2
  /\ Len(pruned) >= 2

\* a prop_GAC call has returned that was made on full domains, with exactly
\* the assignment asg in force and nv as newVar
FirstGAC(n, asg, nv) ==
  /\ pc = "ret"
  /\ prop = "GAC"
  /\ net = n
  /\ pre = Net.dom
  /\ assigned = asg
  /\ newVar = nv

\* C12 as stated: two variables over {1,2}, not-equal, var1 = 1,
\* prop_GAC(csp, var1) returns exactly (True, [(var2, 1)]) and leaves var2's
\* current domain {2}.
C12_OnlyVar2Pair ==
  FirstGAC(1, <<1, None>>, 1) =>
    /\ ok
    /\ pruned = << <<2, 1>> >>
    /\ curdom[2] = {2}

\* C12 amended: the call returns (True, [(var1, 2), (var2, 1)]): the list
\* opens with the pair pruned from newVar itself; var1 is left with {1} and
\* var2 with {2}.
C12_Amended ==
  FirstGAC(1, <<1, None>>, 1) =>
    /\ ok
    /\ pruned = << <<1, 2>>, <<2, 1>> >>
    /\ curdom = << {1}, {2} >>

C12_Witness == FirstGAC(1, <<1, None>>, 1) /\ Len(pruned) = 2

\* the all-different networks: n variables of domain 1..n under one
\* all-different constraint (for n = 2 this is the not-equal constraint)
AllDiffNets == {1, Len(Catalog) - 1}

OnlyAssigned(v, k) == assigned = [w \in Vars |-> IF w = v THEN k ELSE None]

\* C13: all-different over n variables of domain 1..n, one variable assigned
\* k and passed as newVar: the prop_GAC call returns True, k is gone from
\* the current domain of every other variable, and each such pair is in the
\* returned list.
C13_AllDiffPrunesK ==
  \A n \in AllDiffNets : \A v \in Vars : \A k \in domain_full(v) :
    (FirstGAC(n, assigned, v) /\ OnlyAssigned(v, k)) =>
      /\ ok
      /\ \A w \in Vars \ {v} :
           /\ k \notin curdom[w]
           /\ <<w, k>> \in Range(pruned)

C13_Witness ==
  /\ FirstGAC(Len(Catalog) - 1, assigned, 2)
  /\ OnlyAssigned(2, 3)
  /\ {<<1, 3>>, <<3, 3>>} \subseteq Range(pruned)

\* C14: three variables of domain {1,2,3}, pairwise not-equal, nothing
\* assigned: prop_GAC(csp) returns (True, []) and leaves the three current
\* domains {1,2,3}.
C14_TriangleUntouched ==
  FirstGAC(Len(Catalog), <<None, None, None>>, None) =>
    /\ ok
    /\ pruned = <<>>
    /\ curdom = <<1..3, 1..3, 1..3>>

C14_Witness ==
  /\ FirstGAC(Len(Catalog), <<None, None, None>>, None)
  /\ enq = {1, 2, 3}

\* C15: one variable of domain {1,2} assigned 2 under "value must be 1":
\* prop_GAC(csp, var) returns False, (var, 2) is in the returned list and
\* the variable's current domain is empty.
C15_UnaryDeadEnd ==
  FirstGAC(2, <<2>>, 1) =>
    /\ ~ok
    /\ <<1, 2>> \in Range(pruned)
    /\ curdom[1] = {}

C15_Witness == FirstGAC(2, <<2>>, 1) /\ Len(pruned) > 0

\* the cell (row, column) of a variable of the built csp
row_of(v) == ((v - 1) \div Len(board)) + 1
col_of(v) == ((v - 1) % Len(board)) + 1

Cells == 1..(Len(board) * Len(board))

\* the pairs of distinct cells of one row, the left one first
RowPairs ==
  {vw \in Cells \X Cells :
     row_of(vw[1]) = row_of(vw[2]) /\ col_of(vw[1]) < col_of(vw[2])}

\* the pairs of distinct cells of one column, the upper one first
ColPairs ==
  {vw \in Cells \X Cells :
     col_of(vw[1]) = col_of(vw[2]) /\ row_of(vw[1]) < row_of(vw[2])}

\* the symbol written between cell v and its right neighbour
SymbolAfter(v) == board[row_of(v)][2 * col_of(v)]

Obeys(sym, a, b) == (sym = "<" => a < b) /\ (sym = ">" => a > b)

\* the pairs of domain values that differ and, for horizontal neighbours,
\* satisfy the symbol between them
DifferingPairs(v, w) ==
  {t \in csp.doms[v] \X csp.doms[w] :
     /\ t[1] /= t[2]
     /\ (row_of(v) = row_of(w) /\ col_of(w) = col_of(v) + 1)
          => Obeys(SymbolAfter(v), t[1], t[2])}

WithScope(sc) == {k \in DOMAIN csp.cons : csp.cons[k].scope = sc}

\* C16: futoshiki_csp_model_1 builds only constraints over two variables,
\* exactly one for every pair of distinct cells of a row and one for every
\* pair of a column; the satisfying tuples of each are the pairs of domain
\* values that differ and, when the cells are horizontal neighbours, also
\* satisfy the "<" or ">" between them.
C16_Model1Binary ==
  csp.model = 1 =>
    /\ \A k \in DOMAIN csp.cons :
         /\ Len(csp.cons[k].scope) = 2
         /\ csp.cons[k].scope \in RowPairs \cup ColPairs
         /\ csp.cons[k].sat =
              DifferingPairs(csp.cons[k].scope[1], csp.cons[k].scope[2])
    /\ \A vw \in RowPairs \cup ColPairs : Cardinality(WithScope(vw)) = 1

C16_Witness ==
  /\ csp.model = 1
  /\ Len(board) = 3
  /\ Len(csp.cons) = 18
  /\ csp.cons[1].sat = {<<1, 2>>, <<1, 3>>, <<2, 3>>}
  /\ \E k \in DOMAIN csp.cons : csp.cons[k].sat = {<<2, 1>>}

OfKind(kinds) == {k \in DOMAIN csp.cons : csp.cons[k].name.kind \in kinds}

\* the places (row, position) of the "<" and ">" of the board
Inequalities ==
  {ip \in (1..Len(board)) \X (1..(Len(board) - 1)) :
     board[ip[1]][2 * ip[2]] \in {"<", ">"}}

\* the tuples of pairwise distinct values of the domains of a scope
DistinctTuples(sc) ==
  {t \in [1..Len(sc) -> 1..Len(board)] :
     /\ \A a \in 1..Len(sc) : t[a] \in csp.doms[sc[a]]
     /\ Cardinality({t[a] : a \in 1..Len(sc)}) = Len(sc)}

RowScope(i) == [j \in 1..Len(board) |-> (i - 1) * Len(board) + j]
ColScope(i) == [j \in 1..Len(board) |-> (j - 1) * Len(board) + i]

\* C17: futoshiki_csp_model_2 builds exactly 2n all-different constraints,
\* one over the n variables of each row and of each column, whose
\* satisfying tuples are the tuples of pairwise distinct domain values, and
\* exactly one binary constraint per "<" or ">" of the board, over the two
\* cells the symbol separates; it builds nothing else.
C17_Model2Constraints ==
  csp.model = 2 =>
    /\ Cardinality(OfKind({"Row", "Col"})) = 2 * Len(board)
    /\ \A i \in 1..Len(board) :
         /\ \E k \in OfKind({"Row"}) :
              /\ csp.cons[k].scope = RowScope(i)
              /\ csp.cons[k].sat = DistinctTuples(RowScope(i))
         /\ \E k \in OfKind({"Col"}) :
              /\ csp.cons[k].scope = ColScope(i)
              /\ csp.cons[k].sat = DistinctTuples(ColScope(i))
    /\ Cardinality(OfKind({"C"})) = Cardinality(Inequalities)
    /\ \A ip \in Inequalities :
         \E k \in OfKind({"C"}) :
           LET v == (ip[1] - 1) * Len(board) + ip[2]
           IN /\ csp.cons[k].scope = <<v, v + 1>>
              /\ csp.cons[k].sat =
                   {t \in csp.doms[v] \X csp.doms[v + 1] :
                      Obeys(SymbolAfter(v), t[1], t[2])}
    /\ Len(csp.cons) = 2 * Len(board) + Cardinality(Inequalities)

C17_Witness ==
  /\ csp.model = 2
  /\ Len(board) = 3
  /\ Cardinality(Inequalities) = 4
  /\ Len(csp.cons) = 10

\* C18: during a prop_GAC call the queue holds each constraint at most
\* once; a step of the main loop either takes the oldest constraint off the
\* front of the queue to revise it, or leaves the queue as it is but for
\* constraints appended at its end that were not in it.
C18_QueueFIFONoDup ==
  /\ [](GACLoopStep => NoDup(cons))
  /\ [][GACLoopStep =>
          \/ /\ cons /= <<>>
             /\ cons' = Tail(cons)
             /\ c' = Head(cons)
          \/ /\ Len(cons') >= Len(cons)
             /\ SubSeq(cons', 1, Len(cons)) = cons
             /\ \A k \in (Len(cons) + 1)..Len(cons') :
                  cons'[k] \notin Range(cons)]_vars

\* a prune of x1 appended constraint 1, just popped, behind constraint 2,
\* which also holds x1 and was still waiting
C18_Witness ==
  /\ GACLoopStep
  /\ net = 4
  /\ c = 1
  /\ cons = <<2, 1>>
  /\ nenq = 1
  /\ pruned /= <<>>
  /\ pruned[Len(pruned)][1] = 1

\* the step of the main loop prunes a value of var and leaves it others
NonEmptyingPrune ==
  /\ GACLoopStep
  /\ Len(pruned') = Len(pruned) + 1
  /\ curdom'[var] /= {}

\* C19: after a step of the main loop that prunes a value of var without
\* emptying its domain, every constraint whose scope contains var is in the
\* queue, the constraint being revised included; a constraint leaves the
\* queue only to be revised, and True is returned only once the queue is
\* empty, so each of them is revised again before the call returns True.
C19_RequeuedAfterPrune ==
  /\ [][NonEmptyingPrune =>
          /\ pc' = "gac_val"
          /\ var \in Range(get_scope(c))
          /\ \A ci \in Range(get_cons_with_var(var)) : ci \in Range(cons')]_vars
  /\ [][GACLoopStep =>
          \A ci \in Range(cons) \ Range(cons') :
            pc' = "gac_val" /\ c' = ci]_vars
  /\ []((pc = "ret" /\ prop = "GAC" /\ ok) => cons = <<>>)

C19_Witness ==
  /\ GACLoopStep
  /\ pc = "gac_val"
  /\ pruned /= <<>>
  /\ pruned[Len(pruned)][1] = var
  /\ nenq >= 1
  /\ Len(get_cons_with_var(var)) >= 2
  /\ Range(get_cons_with_var(var)) \subseteq Range(cons)

\* the full assignments that satisfy every constraint of the network, agree
\* with the assignment asg and lie within the domains dom
Solutions(dom, asg) ==
  {s \in [Vars -> UNION {domain_full(v) : v \in Vars}] :
     /\ \A v \in Vars : s[v] \in dom[v]
     /\ \A v \in Vars : is_assigned(asg, v) => s[v] = asg[v]
     /\ \A ci \in 1..NCons :
          [i \in DOMAIN get_scope(ci) |-> s[get_scope(ci)[i]]]
            \in Net.cons[ci].sat}

\* C20: when prop_FC or prop_GAC returns, every value of every solution
\* that agreed with the assignments and lay within the current domains at
\* the start of the call is still in its variable's current domain, and if
\* there is such a solution the call returns True.
C20_SolutionsKept ==
  (pc = "ret" /\ prop \in {"FC", "GAC"}) =>
    \A s \in Solutions(pre, assigned) :
      /\ ok
      /\ \A v \in Vars : s[v] \in curdom[v]

C20_Witness ==
  /\ pc = "ret"
  /\ prop = "GAC"
  /\ Solutions(pre, assigned) /= {}
  /\ Len(pruned) >= 2
  /\ \E v \in Vars : ~is_assigned(assigned, v)

\* C21: prop_FC leaves the assignment as it found it: while a candidate
\* value is being checked only the one unassigned variable of the
\* constraint holds a value it did not have, and whenever the call is
\* between two checks or has returned, with True or with False, every
\* variable's assigned value is the one it had when the call started.
C21_FCKeepsAssignment ==
  prop = "FC" =>
    /\ pc \in {"fc", "fc_val", "ret"} => assigned = preasg
    /\ pc = "fc_chk" =>
         /\ ~is_assigned(preasg, var)
         /\ assigned = [preasg EXCEPT ![var] = Head(vals)]

C21_Witness ==
  /\ prop = "FC"
  /\ pc = "ret"
  /\ pruned /= <<>>
  /\ Len(trail) >= 1
  /\ \E v \in Vars : is_assigned(assigned, v)
  /\ \E v \in Vars : ~is_assigned(assigned, v) /\ curdom[v] /= pre[v]

====
